---- MODULE Spec2Model ----
(***************************************************************************)
(* Household budget page (HouseBudget) of the yieldly finance tracker:     *)
(* the stored budget with its line items, the page's copy of it, the       *)
(* handlers that create, edit and delete line items, and the figures the   *)
(* page derives from the loaded budget on every render; the Investments    *)
(* page with its totals; and the emergency fund coverage of the financial  *)
(* summary.                                                                *)
(*                                                                         *)
(* Money is counted in whole minor units.  A JavaScript number that comes  *)
(* out of a division is kept as an exact fraction, or as NaN / Infinity    *)
(* when the divisor is zero, as IEEE-754 division gives.                   *)
(***************************************************************************)
EXTENDS Integers, Sequences, FiniteSets, TLC

\* Largest number of line items the stored budget holds in the model.
MaxItems == 2

\* Largest number of line items of the budget found stored on mount.
MaxSeedItems == 1

\* Sample values of the fields the handlers receive.
AmountValues == {1, 100}
PercentValues == {70}
SalaryValues == {-1, 0, 100}
CategoryTypes == {"expense", "saving", "investment"}
SplitTypes == {"shared", "personal_primary", "personal_partner"}
GroupValues == {"Housing", "Income"}

\* Options of the Add Item modal.
ModalCategoryTypes == {"expense", "saving"}
ModalGroups ==
  {"Housing", "Transport", "Living", "Subscriptions", "Family", "Property", "Savings", "Personal"}

NULL == [is_null |-> TRUE]

\* The two members of the household, each with a browser of their own.
Members == {"primary", "partner"}

\* A stored line item (the fields the derivations read).
StoredItems ==
  [amount : AmountValues,
   category_type : CategoryTypes,
   split_type : SplitTypes,
   primary_share_percent : PercentValues,
   group : GroupValues]

VARIABLES
  db_salary,   \* primary_salary of the stored budget
  db_items,    \* line items of the stored budget, in their stored order
  budget,      \* the page's state `budget`: NULL or the budget as last loaded
  loading      \* the page's state `loading`

\* The Investments page.
VARIABLES
  db_investments,      \* the stored investments, as the API serializes them
  investments,         \* the page's state `investments`
  investmentsLoading,  \* the page's state `loading`
  showModal,           \* the page's state `showModal`
  editingId            \* the page's state `editingId`: NULL or an investment

\* The financial summary of the reporting tools.
VARIABLES
  snapshot,    \* the records the summary is derived from, NULL when none is
  summary      \* the summary last derived, NULL before the first

houseBudgetVars == <<db_salary, db_items, budget, loading>>
investmentsVars ==
  <<db_investments, investments, investmentsLoading, showModal, editingId>>
summaryVars == <<snapshot, summary>>

\* The Goals page, open in the browser of each household member.
VARIABLES
  db_goals,    \* the stored savings goals, by id
  goals,       \* per member, the page's state `goals`
  goalsLoading \* per member, the page's state `loading`

goalsVars == <<db_goals, goals, goalsLoading>>

\* The house budget page open in the browser of each household member, on
\* one stored line item both can edit.
VARIABLES
  db_line_item,  \* the stored line item
  memberItem,    \* per member, the item as the page loaded it, NULL before
  editingItem,   \* per member, whether the item's row is in edit mode
  editValues,    \* per member, the page's state `editValues`
  updateLog      \* the accepted updates in order: member and request body

itemEditVars == <<db_line_item, memberItem, editingItem, editValues, updateLog>>

\* The api client of one browser tab.
VARIABLES
  localStorage,  \* the items access_token and refresh_token, "none" if unset
  location,      \* window.location.href, as a path
  requests       \* the requests made through `api`, in order, each with its
                 \* config (_retry, Authorization) and what became of it

apiVars == <<localStorage, location, requests>>

\* The routes of the application in one browser tab.
VARIABLES
  auth,       \* isLoading and isAuthenticated as useAuth() gives them
  history,    \* the history of the tab, the current path last
  rendered,   \* what the route of the current path rendered
  redirects   \* how many <Navigate> in a row led to the current path

routesVars == <<auth, history, rendered, redirects>>

\* The Transactions page.
VARIABLES
  db_transactions,  \* the ids of the stored transactions, in the order
                    \* the server lists them
  nextId,           \* the id the next stored transaction gets
  transactions,     \* the page's state `transactions`, as ids
  totalCount,       \* the page's state `totalCount`
  hasMore,          \* the page's state `hasMore`
  loadingMore,      \* the page's state `loadingMore`
  txLoading,        \* the page's state `loading`
  inFlight          \* the responses of getTransactions not yet arrived

transactionsVars ==
  <<db_transactions, nextId, transactions, totalCount, hasMore, loadingMore,
    txLoading, inFlight>>

\* The Monthly Tracking page.
VARIABLES
  data,                \* the page's state `data`: the months, as numbers
  monthlyLoading,      \* the page's state `loading`
  selectedMonthIndex,  \* the page's state `selectedMonthIndex`, from 0
  selectedCategory,    \* the page's state `selectedCategory`, "" for null
  detailData           \* the page's state `detailData`: a month, 0 for null

monthlyVars ==
  <<data, monthlyLoading, selectedMonthIndex, selectedCategory, detailData>>

\* The Integrations page and its import dialog.
VARIABLES
  accounts,             \* the page's state `accounts`, as ids
  integrationsLoading,  \* the page's state `loading`
  importing,            \* the page's state `importing`
  showImportModal,      \* the page's state `showImportModal`
  selectedFile,         \* the page's state `selectedFile`, "" for null
  selectedAccountId,    \* the page's state `selectedAccountId`, 0 for null
  importResult,         \* the page's state `importResult`, "" for null
  importError,          \* the page's state `importError`, "" for null
  importRequest         \* the file of the importSnoopCSV request in flight,
                        \* "" with none in flight

integrationsVars ==
  <<accounts, integrationsLoading, importing, showImportModal, selectedFile,
    selectedAccountId, importResult, importError, importRequest>>

vars ==
  <<houseBudgetVars, investmentsVars, summaryVars, goalsVars,
    itemEditVars, apiVars, routesVars, transactionsVars, monthlyVars,
    integrationsVars>>

\* What the handlers of one page leave alone.
outsideHouseBudget ==
  <<investmentsVars, summaryVars, goalsVars, itemEditVars, apiVars,
    routesVars, transactionsVars, monthlyVars, integrationsVars>>
outsideInvestments ==
  <<houseBudgetVars, summaryVars, goalsVars, itemEditVars, apiVars,
    routesVars, transactionsVars, monthlyVars, integrationsVars>>
outsideSummary ==
  <<houseBudgetVars, investmentsVars, goalsVars, itemEditVars, apiVars,
    routesVars, transactionsVars, monthlyVars, integrationsVars>>
outsideGoals ==
  <<houseBudgetVars, investmentsVars, summaryVars, itemEditVars, apiVars,
    routesVars, transactionsVars, monthlyVars, integrationsVars>>
outsideItemEdit ==
  <<houseBudgetVars, investmentsVars, summaryVars, goalsVars, apiVars,
    routesVars, transactionsVars, monthlyVars, integrationsVars>>
outsideApi ==
  <<houseBudgetVars, investmentsVars, summaryVars, goalsVars,
    itemEditVars, routesVars, transactionsVars, monthlyVars,
    integrationsVars>>
outsideRoutes ==
  <<houseBudgetVars, investmentsVars, summaryVars, goalsVars,
    itemEditVars, apiVars, transactionsVars, monthlyVars,
    integrationsVars>>
outsideTransactions ==
  <<houseBudgetVars, investmentsVars, summaryVars, goalsVars,
    itemEditVars, apiVars, routesVars, monthlyVars, integrationsVars>>
outsideMonthly ==
  <<houseBudgetVars, investmentsVars, summaryVars, goalsVars,
    itemEditVars, apiVars, routesVars, transactionsVars,
    integrationsVars>>
outsideIntegrations ==
  <<houseBudgetVars, investmentsVars, summaryVars, goalsVars,
    itemEditVars, apiVars, routesVars, transactionsVars, monthlyVars>>

----------------------------------------------------------------------------
(* Arithmetic of JavaScript numbers produced by a division.                *)

Fin(n, d) == [kind |-> "fin", n |-> n, d |-> d]
NaN == [kind |-> "nan", n |-> 0, d |-> 1]
Infinity == [kind |-> "inf", n |-> 1, d |-> 1]
NegInfinity == [kind |-> "inf", n |-> -1, d |-> 1]
Zero == Fin(0, 1)

\* a / b for integers a and b.
JsDiv(a, b) ==
  IF b = 0
  THEN IF a = 0 THEN NaN ELSE IF a > 0 THEN Infinity ELSE NegInfinity
  ELSE IF b > 0 THEN Fin(a, b) ELSE Fin(-a, -b)

\* x * 100 for a quotient x.
JsTimes100(x) == IF x.kind = "fin" THEN Fin(x.n * 100, x.d) ELSE x

IsFinite(x) == x.kind = "fin"

\* floor(a / b) for b > 0.
FloorDiv(a, b) == a \div b

----------------------------------------------------------------------------
(* The stored budget as the API returns it.                                *)

\* Variant: the partner's part multiplied out on its own.
SplitAmounts_IndependentMultiplication(item) ==
  IF item.split_type = "shared"
  THEN [primary_amount |-> FloorDiv(item.amount * item.primary_share_percent, 100),
        partner_amount |->
          FloorDiv(item.amount * (100 - item.primary_share_percent), 100)]
  ELSE IF item.split_type = "personal_primary"
  THEN [primary_amount |-> item.amount, partner_amount |-> 0]
  ELSE [primary_amount |-> 0, partner_amount |-> item.amount]

\* Variant: the percentage taken as the partner's share.
SplitAmounts_PartnerShare(item) ==
  IF item.split_type = "shared"
  THEN LET p == FloorDiv(item.amount * (100 - item.primary_share_percent), 100)
       IN  [primary_amount |-> p, partner_amount |-> item.amount - p]
  ELSE IF item.split_type = "personal_primary"
  THEN [primary_amount |-> item.amount, partner_amount |-> 0]
  ELSE [primary_amount |-> 0, partner_amount |-> item.amount]

\* Variant: the percentage applied to personal_primary items too.
SplitAmounts_PercentForPersonal(item) ==
  IF item.split_type \in {"shared", "personal_primary"}
  THEN LET p == FloorDiv(item.amount * item.primary_share_percent, 100)
       IN  [primary_amount |-> p, partner_amount |-> item.amount - p]
  ELSE [primary_amount |-> 0, partner_amount |-> item.amount]

\* Split Calculator: (primary_amount, partner_amount) of one line item.
SplitAmounts(item) ==
  IF item.split_type = "shared"
  THEN LET p == FloorDiv(item.amount * item.primary_share_percent, 100)
       IN  [primary_amount |-> p, partner_amount |-> item.amount - p]
  ELSE IF item.split_type = "personal_primary"
  THEN [primary_amount |-> item.amount, partner_amount |-> 0]
  ELSE [primary_amount |-> 0, partner_amount |-> item.amount]

\* A line item as serialized: the stored fields and the two derived ones.
SerializeItem(item) ==
  LET split == SplitAmounts(item)
  IN  [amount |-> item.amount,
       category_type |-> item.category_type,
       split_type |-> item.split_type,
       primary_share_percent |-> item.primary_share_percent,
       group |-> item.group,
       primary_amount |-> split.primary_amount,
       partner_amount |-> split.partner_amount]

\* GET /house-budgets/{id}/ on the stored budget.
getHouseBudget(salary, items) ==
  [primary_salary |-> salary,
   line_items |-> [i \in 1..Len(items) |-> SerializeItem(items[i])]]

----------------------------------------------------------------------------
(* Figures derived on every render from the loaded budget b.               *)

RECURSIVE SumAmount(_)
\* items.reduce((sum, item) => sum + Number(item.amount), 0)
SumAmount(items) ==
  IF items = <<>> THEN 0 ELSE items[1].amount + SumAmount(Tail(items))

IsPartner(item) == item.split_type = "personal_partner"
IsPartnerIncome(item) == item.split_type = "personal_partner" /\ item.group = "Income"
IsPrimary(item) == item.split_type = "personal_primary"
IsPrimarySaving(item) ==
  item.split_type = "personal_primary" /\ item.category_type = "saving"

nishantSalary(b) == b.primary_salary

\* Variant: only the partner's items of the Income group counted.
kratiContribution_IncomeOnly(b) == SumAmount(SelectSeq(b.line_items, IsPartnerIncome))

kratiContribution(b) == SumAmount(SelectSeq(b.line_items, IsPartner))

\* Variant: the group is not looked at.
kratiCashToHousehold_AnyGroup(b) == SumAmount(SelectSeq(b.line_items, IsPartner))

kratiCashToHousehold(b) == SumAmount(SelectSeq(b.line_items, IsPartnerIncome))

totalIncome(b) == nishantSalary(b) + kratiContribution(b)

IsPrimaryOutsideIncome(item) ==
  item.split_type = "personal_primary" /\ item.group # "Income"
IsPrimaryExpenseOrSaving(item) ==
  item.split_type = "personal_primary" /\ item.category_type \in {"expense", "saving"}

\* Variant: items of the Income group left out.
nishantOutgoing_OutsideIncome(b) ==
  SumAmount(SelectSeq(b.line_items, IsPrimaryOutsideIncome))

\* Variant: investment items left out.
nishantOutgoing_ExpenseOrSaving(b) ==
  SumAmount(SelectSeq(b.line_items, IsPrimaryExpenseOrSaving))

nishantOutgoing(b) == SumAmount(SelectSeq(b.line_items, IsPrimary))

availablePot(b) == nishantSalary(b) + kratiCashToHousehold(b)

remaining(b) == availablePot(b) - nishantOutgoing(b)

nishantSavings(b) == SumAmount(SelectSeq(b.line_items, IsPrimarySaving))

\* Variant: the division made whatever the pot.
savingsRate_Unguarded(b) == JsTimes100(JsDiv(nishantSavings(b), availablePot(b)))

savingsRate(b) ==
  IF availablePot(b) > 0
  THEN JsTimes100(JsDiv(nishantSavings(b), availablePot(b)))
  ELSE Zero

\* Share of household income under the two income cards.
primarySharePercent(b) == JsTimes100(JsDiv(nishantSalary(b), totalIncome(b)))
partnerSharePercent(b) == JsTimes100(JsDiv(kratiContribution(b), totalIncome(b)))

\* Quick Stats: "% of available" under Expenses, and the Allocated card.
expensesPercentOfAvailable(b) ==
  JsTimes100(JsDiv(nishantOutgoing(b) - nishantSavings(b), availablePot(b)))
allocatedPercent(b) == JsTimes100(JsDiv(nishantOutgoing(b), availablePot(b)))

\* The caption of the Remaining card.
remainingCardLabel(b) ==
  IF remaining(b) >= 0 THEN "Buffer available" ELSE "Over budget!"

\* Math.abs(remaining), the figure the Monthly Buffer check prints.
absRemaining(b) == IF remaining(b) >= 0 THEN remaining(b) ELSE -remaining(b)

\* Variant: the caption decided on the figure printed.
monthlyBufferLabel_OnPrintedFigure(b) ==
  IF absRemaining(b) >= 0 THEN "Positive buffer" ELSE "Over budget"

\* The caption of the Monthly Buffer health check.
monthlyBufferLabel(b) ==
  IF remaining(b) >= 0 THEN "Positive buffer" ELSE "Over budget"

\* The caption under Remaining in the Monthly Money Flow summary.
moneyFlowLabel(b) == IF remaining(b) >= 0 THEN "Buffer" ELSE "Over budget"

----------------------------------------------------------------------------
(* Line items by group.  An object keyed by group name is kept as the      *)
(* sequence of its entries [group, items] in the order the keys were       *)
(* first inserted, the order Object.entries lists them in.                 *)

\* Variant: the group taken as it is, empty or not.
groupOf_NoDefault(item) == item.group

\* The keys of groupIcons and groupColors.
RecognizedGroups ==
  {"Housing", "Transport", "Living", "Subscriptions", "Family", "Property",
   "Savings", "Personal", "Income"}

\* Variant: every group outside the icon table put under "Other".
groupOf_KnownOrOther(item) ==
  IF item.group \in RecognizedGroups THEN item.group ELSE "Other"

\* item.group || 'Other'
groupOf(item) == IF item.group = "" THEN "Other" ELSE item.group

HasKey(acc, group) == \E k \in DOMAIN acc : acc[k].group = group

\* Variant: a later item of a group replaces the group's list.
groupedItemsStep_Replace(acc, item) ==
  LET group == groupOf(item)
  IN  IF HasKey(acc, group)
      THEN [k \in DOMAIN acc |->
              IF acc[k].group = group THEN [acc[k] EXCEPT !.items = <<item>>]
              ELSE acc[k]]
      ELSE Append(acc, [group |-> group, items |-> <<item>>])

\* The reducer: if (!acc[group]) acc[group] = []; acc[group].push(item).
groupedItemsStep(acc, item) ==
  LET group == groupOf(item)
  IN  IF HasKey(acc, group)
      THEN [k \in DOMAIN acc |->
              IF acc[k].group = group THEN [acc[k] EXCEPT !.items = Append(@, item)]
              ELSE acc[k]]
      ELSE Append(acc, [group |-> group, items |-> <<item>>])

RECURSIVE groupedItemsReduce(_, _)
\* line_items.reduce(step, acc)
groupedItemsReduce(acc, items) ==
  IF items = <<>> THEN acc
  ELSE groupedItemsReduce(groupedItemsStep(acc, Head(items)), Tail(items))

\* budget?.line_items.reduce(...) || {}
groupedItems(b) == IF b = NULL THEN <<>> ELSE groupedItemsReduce(<<>>, b.line_items)

IsExpense(item) == item.category_type = "expense"
IsSaving(item) == item.category_type = "saving"

HasTotalOrSavings(g) == g.total > 0 \/ g.savings > 0

\* Per group, the total of its expense items and of its saving items; groups
\* with neither are left out.
expensesByGroup(b) ==
  LET entries == groupedItems(b)
  IN  SelectSeq([k \in DOMAIN entries |->
                   [group |-> entries[k].group,
                    total |-> SumAmount(SelectSeq(entries[k].items, IsExpense)),
                    savings |-> SumAmount(SelectSeq(entries[k].items, IsSaving))]],
                HasTotalOrSavings)

----------------------------------------------------------------------------
(* The Overview tab.                                                       *)

HasTotal(g) == g.total > 0

RECURSIVE sortByTotal(_)
\* rows.sort((a, b) => b.total - a.total): largest total first, rows of equal
\* total in their earlier order.
sortByTotal(rows) ==
  IF rows = <<>> THEN <<>>
  ELSE LET last == rows[Len(rows)]
           front == sortByTotal(SubSeq(rows, 1, Len(rows) - 1))
           ahead == {k \in DOMAIN front : front[k].total >= last.total}
       IN  SubSeq(front, 1, Cardinality(ahead)) \o <<last>>
             \o SubSeq(front, Cardinality(ahead) + 1, Len(front))

\* The rows of the Spending Breakdown card.
spendingBreakdown(b) == sortByTotal(SelectSeq(expensesByGroup(b), HasTotal))

IsSavingOutsideIncome(item) == item.category_type = "saving" /\ item.group # "Income"

\* The rows of the Savings & Investments card.
savingsBreakdownItems(b) == SelectSeq(b.line_items, IsSavingOutsideIncome)

\* Variant: the group is not looked at.
savingsBreakdownTotal_AnyGroup(b) == SumAmount(SelectSeq(b.line_items, IsSaving))

\* The Total Savings line of the card.
savingsBreakdownTotal(b) == SumAmount(SelectSeq(b.line_items, IsSavingOutsideIncome))

----------------------------------------------------------------------------
(* The Split View tab.                                                     *)

IsPrimaryExpense(item) ==
  item.category_type = "expense" /\ item.split_type = "personal_primary"

IsPrimaryPersonalExpense(item) ==
  /\ item.category_type = "expense"
  /\ item.split_type = "personal_primary"
  /\ item.group = "Personal"

\* Essential expenses (non-savings items the primary member pays).
essentialExpenses(b) == SelectSeq(b.line_items, IsPrimaryExpense)

\* Variant: the expense items of every split type.
essentialExpensesTotal_AnySplit(b) == SumAmount(SelectSeq(b.line_items, IsExpense))

essentialExpensesTotal(b) == SumAmount(essentialExpenses(b))

\* The primary member's personal expenses.
personalExpenses(b) == SelectSeq(b.line_items, IsPrimaryPersonalExpense)

personalExpensesTotal(b) == SumAmount(personalExpenses(b))

----------------------------------------------------------------------------
(* The page's handlers.                                                    *)

\* The page is mounted; nothing has been read from the server yet.
HouseBudgetMounted ==
  /\ db_salary = 0
  /\ db_items = <<>>
  /\ budget = NULL
  /\ loading = TRUE

\* The Investments page as mounted, nothing read from the server yet.
InvestmentsMounted ==
  /\ db_investments = <<>>
  /\ investments = <<>>
  /\ investmentsLoading = TRUE
  /\ showModal = FALSE
  /\ editingId = NULL

\* No summary asked for.
SummaryIdle ==
  /\ snapshot = NULL
  /\ summary = NULL

\* The Goals page of every member as mounted, no goal stored.
GoalsMounted ==
  /\ db_goals = <<>>
  /\ goals = [m \in Members |-> <<>>]
  /\ goalsLoading = [m \in Members |-> TRUE]

ItemEditMounted ==
  /\ db_line_item = [amount |-> 1, split_type |-> "shared", group |-> "Housing"]
  /\ memberItem = [m \in Members |-> NULL]
  /\ editingItem = [m \in Members |-> FALSE]
  /\ editValues = [m \in Members |-> <<>>]
  /\ updateLog = <<>>

ApiIdle ==
  /\ localStorage = [access_token |-> "stale", refresh_token |-> "r1"]
  /\ location = "/"
  /\ requests = <<>>

RoutesMounted ==
  /\ auth = [isLoading |-> TRUE, isAuthenticated |-> FALSE]
  /\ history = <<"/">>
  /\ rendered = [kind |-> "spinner", to |-> ""]
  /\ redirects = 0

TransactionsMounted ==
  /\ db_transactions = <<>>
  /\ nextId = 1
  /\ transactions = <<>>
  /\ totalCount = 0
  /\ hasMore = TRUE
  /\ loadingMore = FALSE
  /\ txLoading = TRUE
  /\ inFlight = {[kind |-> "loadData", results |-> <<>>, count |-> 0,
                  length |-> 0, total |-> 0]}

MonthlyTrackingMounted ==
  /\ data = <<>>
  /\ monthlyLoading = TRUE
  /\ selectedMonthIndex = 0
  /\ selectedCategory = ""
  /\ detailData = 0

IntegrationsMounted ==
  /\ accounts = <<>>
  /\ integrationsLoading = TRUE
  /\ importing = FALSE
  /\ showImportModal = FALSE
  /\ selectedFile = ""
  /\ selectedAccountId = 0
  /\ importResult = ""
  /\ importError = ""
  /\ importRequest = ""

\* The other components as mounted.
OtherComponentsMounted ==
  /\ GoalsMounted
  /\ ItemEditMounted
  /\ RoutesMounted
  /\ MonthlyTrackingMounted
  /\ IntegrationsMounted

Init ==
  /\ HouseBudgetMounted
  /\ InvestmentsMounted
  /\ SummaryIdle
  /\ OtherComponentsMounted
  /\ ApiIdle
  /\ TransactionsMounted

\* loadBudget on mount, the requests succeeding.  The page's budget becomes
\* the household's template budget or, with none stored, the default budget
\* that createDefaultHouseBudget has the server store: in either case a
\* budget whose salary and line items the page did not choose.
loadBudget ==
  /\ loading = TRUE
  /\ \E salary \in SalaryValues,
        items \in UNION {[1..n -> StoredItems] : n \in 0..MaxSeedItems} :
       /\ db_salary' = salary
       /\ db_items' = items
       /\ budget' = getHouseBudget(salary, items)
  /\ loading' = FALSE
  /\ UNCHANGED outsideHouseBudget

\* loadBudget on mount, a request failing: the error is logged, loading ends.
loadBudgetFail ==
  /\ loading = TRUE
  /\ loading' = FALSE
  /\ UNCHANGED <<db_salary, db_items, budget>>
  /\ UNCHANGED outsideHouseBudget

\* handleAddItem: POST the new item, then reload.
handleAddItem ==
  /\ budget # NULL
  /\ Len(db_items) < MaxItems
  /\ \E amount \in AmountValues, category_type \in ModalCategoryTypes,
        split_type \in SplitTypes, primary_share_percent \in PercentValues,
        group \in ModalGroups \cap GroupValues :
       LET item == [amount |-> amount, category_type |-> category_type,
                    split_type |-> split_type,
                    primary_share_percent |-> primary_share_percent,
                    group |-> group]
       IN  /\ db_items' = Append(db_items, item)
           /\ budget' = getHouseBudget(db_salary, db_items')
  /\ UNCHANGED <<db_salary, loading>>
  /\ UNCHANGED outsideHouseBudget

\* handleUpdateItem: PATCH the item with the edit form's values, then reload.
\* The form starts from the item as loaded and changes amount and split_type.
handleUpdateItem ==
  /\ budget # NULL
  /\ \E i \in 1..Len(budget.line_items), amount \in AmountValues,
        split_type \in SplitTypes :
       /\ i <= Len(db_items)
       /\ db_items' = [db_items EXCEPT ![i].amount = amount,
                                       ![i].split_type = split_type]
       /\ budget' = getHouseBudget(db_salary, db_items')
  /\ UNCHANGED <<db_salary, loading>>
  /\ UNCHANGED outsideHouseBudget

\* handleDeleteItem, confirmed: DELETE the item, then reload.
handleDeleteItem ==
  /\ budget # NULL
  /\ \E i \in 1..Len(budget.line_items) :
       /\ i <= Len(db_items)
       /\ db_items' = [j \in 1..(Len(db_items) - 1) |->
                         IF j < i THEN db_items[j] ELSE db_items[j + 1]]
       /\ budget' = getHouseBudget(db_salary, db_items')
  /\ UNCHANGED <<db_salary, loading>>
  /\ UNCHANGED outsideHouseBudget

\* handleUpdateIncome: PATCH the budget's income fields, then reload.
handleUpdateIncome ==
  /\ budget # NULL
  /\ \E salary \in SalaryValues :
       /\ db_salary' = salary
       /\ budget' = getHouseBudget(db_salary', db_items)
  /\ UNCHANGED <<db_items, loading>>
  /\ UNCHANGED outsideHouseBudget

Next ==
  \/ loadBudget
  \/ loadBudgetFail
  \/ handleAddItem
  \/ handleUpdateItem
  \/ handleDeleteItem
  \/ handleUpdateIncome

Spec == Init /\ [][Next]_vars

----------------------------------------------------------------------------
(* The page over a stored budget whose line items carry any group name:    *)
(* group is a free string of the API, and items stored through other       *)
(* clients need not use a group of the Add Item modal.                     *)

\* Sample group names of stored items: none, one outside the icon table, and
\* one of the table.
StoredGroupValues == {"", "Utilities", "Personal"}

StoredItemsAnyGroup ==
  [amount : {100},
   category_type : ModalCategoryTypes,
   split_type : {"personal_primary"},
   primary_share_percent : PercentValues,
   group : StoredGroupValues]

\* loadBudget on mount, the requests succeeding, over such a stored budget.
loadBudgetAnyGroup ==
  /\ loading = TRUE
  /\ \E salary \in SalaryValues,
        items \in UNION {[1..n -> StoredItemsAnyGroup] : n \in 0..MaxSeedItems} :
       /\ db_salary' = salary
       /\ db_items' = items
       /\ budget' = getHouseBudget(salary, items)
  /\ loading' = FALSE
  /\ UNCHANGED outsideHouseBudget

NextAnyGroup ==
  \/ loadBudgetAnyGroup
  \/ loadBudgetFail
  \/ handleAddItem
  \/ handleUpdateItem
  \/ handleDeleteItem
  \/ handleUpdateIncome

SpecAnyGroup == Init /\ [][NextAnyGroup]_vars

----------------------------------------------------------------------------
(* The Investments page.  An investment is kept by the two figures the     *)
(* server serializes with it and the page totals: total_invested and       *)
(* current_value.  An investment's place in the list stands for its id.    *)

\* Largest number of investments stored in the model.
MaxInvestments == 2

\* Sample values of the serialized figures.
InvestedValues == {0, 100}
CurrentValues == {0, 50, 150}

StoredInvestments == [total_invested : InvestedValues, current_value : CurrentValues]

RECURSIVE SumInvested(_)
\* investments.reduce((sum, inv) => sum + Number(inv.total_invested), 0)
SumInvested(invs) ==
  IF invs = <<>> THEN 0 ELSE invs[1].total_invested + SumInvested(Tail(invs))

RECURSIVE SumValue(_)
\* investments.reduce((sum, inv) => sum + Number(inv.current_value), 0)
SumValue(invs) ==
  IF invs = <<>> THEN 0 ELSE invs[1].current_value + SumValue(Tail(invs))

totalInvested(invs) == SumInvested(invs)
totalValue(invs) == SumValue(invs)
totalGainLoss(invs) == totalValue(invs) - totalInvested(invs)

\* Variant: the division made whatever the sum invested.
totalGainLossPercent_Unguarded(invs) ==
  JsTimes100(JsDiv(totalGainLoss(invs), totalInvested(invs)))

totalGainLossPercent(invs) ==
  IF totalInvested(invs) > 0
  THEN JsTimes100(JsDiv(totalGainLoss(invs), totalInvested(invs)))
  ELSE Zero

\* loadData on mount, the request succeeding: the page shows the investments
\* found stored, which it did not choose.
loadData ==
  /\ investmentsLoading = TRUE
  /\ \E stored \in UNION {[1..n -> StoredInvestments] : n \in 0..MaxInvestments} :
       /\ db_investments' = stored
       /\ investments' = stored
  /\ investmentsLoading' = FALSE
  /\ UNCHANGED <<showModal, editingId>>
  /\ UNCHANGED outsideInvestments

\* loadData on mount, the request failing: the error is logged, loading ends.
loadDataFail ==
  /\ investmentsLoading = TRUE
  /\ investmentsLoading' = FALSE
  /\ UNCHANGED <<db_investments, investments, showModal, editingId>>
  /\ UNCHANGED outsideInvestments

\* The Add Investment button: setShowModal(true).
openAddModal ==
  /\ investmentsLoading = FALSE
  /\ showModal = FALSE
  /\ showModal' = TRUE
  /\ UNCHANGED <<db_investments, investments, investmentsLoading, editingId>>
  /\ UNCHANGED outsideInvestments

\* openEditModal on an investment of the list.
openEditModal ==
  /\ investmentsLoading = FALSE
  /\ showModal = FALSE
  /\ \E i \in DOMAIN investments : editingId' = [id |-> i]
  /\ showModal' = TRUE
  /\ UNCHANGED <<db_investments, investments, investmentsLoading>>
  /\ UNCHANGED outsideInvestments

\* closeModal from the modal's close and Cancel buttons.
closeModal ==
  /\ showModal = TRUE
  /\ showModal' = FALSE
  /\ editingId' = NULL
  /\ UNCHANGED <<db_investments, investments, investmentsLoading>>
  /\ UNCHANGED outsideInvestments

\* handleSubmit: with editingId set, PATCH the investment's current price,
\* otherwise POST a new investment; then closeModal and loadData.  The
\* server serializes the investment with the figures it derives.
handleSubmit ==
  /\ showModal = TRUE
  /\ IF editingId # NULL
     THEN /\ editingId.id \in DOMAIN db_investments
          /\ \E current_value \in CurrentValues :
               db_investments' =
                 [db_investments EXCEPT ![editingId.id].current_value = current_value]
     ELSE /\ Len(db_investments) < MaxInvestments
          /\ \E investment \in StoredInvestments :
               db_investments' = Append(db_investments, investment)
  /\ showModal' = FALSE
  /\ editingId' = NULL
  /\ investments' = db_investments'
  /\ UNCHANGED investmentsLoading
  /\ UNCHANGED outsideInvestments

\* handleDelete, confirmed: DELETE the investment, then loadData.
handleDelete ==
  /\ investmentsLoading = FALSE
  /\ showModal = FALSE
  /\ \E i \in DOMAIN investments :
       /\ i <= Len(db_investments)
       /\ db_investments' = [j \in 1..(Len(db_investments) - 1) |->
                               IF j < i THEN db_investments[j]
                               ELSE db_investments[j + 1]]
       /\ investments' = db_investments'
  /\ UNCHANGED <<investmentsLoading, showModal, editingId>>
  /\ UNCHANGED outsideInvestments

NextInvestments ==
  \/ loadData
  \/ loadDataFail
  \/ openAddModal
  \/ openEditModal
  \/ closeModal
  \/ handleSubmit
  \/ handleDelete

SpecInvestments == Init /\ [][NextInvestments]_vars

----------------------------------------------------------------------------
(* The emergency fund coverage of the financial summary: the months of     *)
(* essential expenses the emergency fund covers.                           *)

\* Largest number of line items of a snapshot in the model.
MaxSummaryItems == 2

\* Sample inputs of the resolver.
EmergencyFundValues == {0, 6500}
EssentialAmountValues == {300, 1000}
EssentialGroupSets == {{"Housing", "Transport"}, {"Housing"}}
FallbackValues == {1300, 2000}

SnapshotItems ==
  [amount : EssentialAmountValues,
   category_type : ModalCategoryTypes,
   group : {"Housing", "Transport", "Personal"}]

Snapshots ==
  [emergency_fund_total : EmergencyFundValues,
   line_items : UNION {[1..n -> SnapshotItems] : n \in 0..MaxSummaryItems},
   ESSENTIAL_GROUPS : EssentialGroupSets,
   fallback : FallbackValues]

RECURSIVE essential_monthly_expenses(_, _)
\* The sum of amount over the expense items whose group is in the allow-list.
essential_monthly_expenses(items, groups) ==
  IF items = <<>> THEN 0
  ELSE (IF items[1].category_type = "expense" /\ items[1].group \in groups
        THEN items[1].amount ELSE 0)
       + essential_monthly_expenses(Tail(items), groups)

\* Variant: the sum divided by as it comes, zero or not.
months_covered_NoFallback(s) ==
  JsDiv(s.emergency_fund_total,
        essential_monthly_expenses(s.line_items, s.ESSENTIAL_GROUPS))

\* emergency_fund_total / essential_monthly_expenses, the fallback estimate
\* standing in for a sum of zero.
months_covered(s) ==
  LET essential == essential_monthly_expenses(s.line_items, s.ESSENTIAL_GROUPS)
  IN  JsDiv(s.emergency_fund_total, IF essential > 0 THEN essential ELSE s.fallback)

\* The records stored when the summary is asked for.
InitSummary ==
  /\ HouseBudgetMounted
  /\ InvestmentsMounted
  /\ snapshot \in Snapshots
  /\ summary = NULL
  /\ OtherComponentsMounted
  /\ ApiIdle
  /\ TransactionsMounted

\* The summary is asked for: it is derived from the records as stored.
get_financial_summary ==
  /\ summary' = [months_covered |-> months_covered(snapshot)]
  /\ UNCHANGED snapshot
  /\ UNCHANGED outsideSummary

NextSummary == get_financial_summary

SpecSummary == InitSummary /\ [][NextSummary]_vars

----------------------------------------------------------------------------
(* The Goals page.  Each household member has the page open in a browser   *)
(* of their own, with its own copy `goals` of the stored goals.  A stored  *)
(* goal is found at its id in db_goals; beside its fields it records, for  *)
(* the properties, the amount it was created with (start) and the amounts  *)
(* the accepted add-funds requests added (added, adds).                    *)

\* Largest number of goals stored, and of add-funds requests accepted for
\* one goal, in the model.
MaxGoals == 1
MaxAddsPerGoal == 2

\* Sample values of the Create Goal form and of the Add Funds modal.
TargetValues == {100}
StartValues == {0, 100}
AddValues == {50, 60}

RECURSIVE LiveIds(_, _)
\* The ids from i on of the goals not deleted, in ascending order.
LiveIds(db, i) ==
  IF i > Len(db) THEN <<>>
  ELSE (IF db[i].deleted THEN <<>> ELSE <<i>>) \o LiveIds(db, i + 1)

\* GET /savings-goals/ on the stored goals.
getSavingsGoals(db) ==
  LET ids == LiveIds(db, 1)
  IN  [k \in DOMAIN ids |->
         [id |-> ids[k],
          target_amount |-> db[ids[k]].target_amount,
          current_amount |-> db[ids[k]].current_amount,
          is_completed |-> db[ids[k]].is_completed]]

\* POST /savings-goals/ with the fields createSavingsGoal sends.  The request
\* carries no is_completed: stored is the value the server gives the field.
createSavingsGoal(db, target_amount, current_amount, is_completed) ==
  Append(db, [target_amount |-> target_amount,
              current_amount |-> current_amount,
              is_completed |-> is_completed,
              deleted |-> FALSE,
              start |-> current_amount,
              added |-> 0,
              adds |-> 0])

\* PATCH /savings-goals/{id}/ with the two fields handleAddFunds sends; the
\* amount the member typed is recorded for the properties.
updateSavingsGoal(db, id, current_amount, is_completed, amount) ==
  [db EXCEPT ![id].current_amount = current_amount,
             ![id].is_completed = is_completed,
             ![id].added = @ + amount,
             ![id].adds = @ + 1]

\* loadData of member m's page, on mount or on coming back to the page.
goalsLoadData(m) ==
  /\ goals' = [goals EXCEPT ![m] = getSavingsGoals(db_goals)]
  /\ goalsLoading' = [goalsLoading EXCEPT ![m] = FALSE]
  /\ UNCHANGED db_goals
  /\ UNCHANGED outsideGoals

\* handleSubmit of the Create Goal form, then loadData.
goalsHandleSubmit(m) ==
  /\ ~goalsLoading[m]
  /\ Len(db_goals) < MaxGoals
  /\ \E target_amount \in TargetValues, current_amount \in StartValues,
        is_completed \in BOOLEAN :
       db_goals' = createSavingsGoal(db_goals, target_amount, current_amount,
                                     is_completed)
  /\ goals' = [goals EXCEPT ![m] = getSavingsGoals(db_goals')]
  /\ UNCHANGED goalsLoading
  /\ UNCHANGED outsideGoals

\* handleAddFunds on a goal of member m's list, then loadData.  The new
\* amount is worked out from the goal as the page holds it.  The request
\* for a goal deleted meanwhile fails and the handler stops at the error.
goalsHandleAddFunds(m) ==
  /\ ~goalsLoading[m]
  /\ \E k \in DOMAIN goals[m], addAmount \in AddValues :
       LET goal == goals[m][k]
           newAmount == goal.current_amount + addAmount
       IN  IF db_goals[goal.id].deleted
           THEN UNCHANGED <<db_goals, goals>>
           ELSE /\ db_goals[goal.id].adds < MaxAddsPerGoal
                /\ db_goals' = updateSavingsGoal(db_goals, goal.id, newAmount,
                                                 newAmount >= goal.target_amount,
                                                 addAmount)
                /\ goals' = [goals EXCEPT ![m] = getSavingsGoals(db_goals')]
  /\ UNCHANGED goalsLoading
  /\ UNCHANGED outsideGoals

\* handleDelete, confirmed, then loadData; the request for a goal already
\* deleted fails and the handler stops at the error.
goalsHandleDelete(m) ==
  /\ ~goalsLoading[m]
  /\ \E k \in DOMAIN goals[m] :
       LET goal == goals[m][k]
       IN  IF db_goals[goal.id].deleted
           THEN UNCHANGED <<db_goals, goals>>
           ELSE /\ db_goals' = [db_goals EXCEPT ![goal.id].deleted = TRUE]
                /\ goals' = [goals EXCEPT ![m] = getSavingsGoals(db_goals')]
  /\ UNCHANGED goalsLoading
  /\ UNCHANGED outsideGoals

NextGoals ==
  \E m \in Members :
    \/ goalsLoadData(m)
    \/ goalsHandleSubmit(m)
    \/ goalsHandleAddFunds(m)
    \/ goalsHandleDelete(m)

SpecGoals == Init /\ [][NextGoals]_vars

----------------------------------------------------------------------------
(* One line item edited from two browsers.  The stored item has the fields *)
(* a request can write; the page holds it as serialized, with its id.      *)

\* Largest number of accepted updates in the model.
MaxUpdates == 2

\* Sample values of the inputs of the edit row.
EditSplitTypes == {"shared", "personal_primary"}

\* The fields of a line item a request can write, as far as modelled.
LineItemFields == {"amount", "split_type", "group"}

\* The line item as the server returns it inside the budget.
serializeLineItem(item) ==
  [f \in LineItemFields \cup {"id"} |-> IF f = "id" THEN 1 ELSE item[f]]

\* Variant: the edit row starting from no values, so that only the fields
\* the member changes are sent.
editValuesOnEdit_Empty(item) == <<>>

\* The edit button: setEditValues(item).
editValuesOnEdit(item) == item

\* An input of the edit row: setEditValues({ ...editValues, field: value }).
withField(values, field, value) ==
  [f \in DOMAIN values \cup {field} |-> IF f = field THEN value ELSE values[f]]

\* PATCH /budget-line-items/{id}/: the writable fields the body has replace
\* the stored ones, the others stay; nothing about the item's earlier state
\* is compared.
updateBudgetLineItem(item, body) ==
  [f \in DOMAIN item |-> IF f \in DOMAIN body THEN body[f] ELSE item[f]]

\* loadBudget of member m's page, opened or opened again.
itemLoadBudget(m) ==
  /\ memberItem' = [memberItem EXCEPT ![m] = serializeLineItem(db_line_item)]
  /\ editingItem' = [editingItem EXCEPT ![m] = FALSE]
  /\ editValues' = [editValues EXCEPT ![m] = <<>>]
  /\ UNCHANGED <<db_line_item, updateLog>>
  /\ UNCHANGED outsideItemEdit

\* The edit button of the item's row.
onEditClick(m) ==
  /\ memberItem[m] # NULL
  /\ ~editingItem[m]
  /\ editingItem' = [editingItem EXCEPT ![m] = TRUE]
  /\ editValues' = [editValues EXCEPT ![m] = editValuesOnEdit(memberItem[m])]
  /\ UNCHANGED <<db_line_item, memberItem, updateLog>>
  /\ UNCHANGED outsideItemEdit

\* The amount input or the split select of the edit row changed.
onEditChange(m) ==
  /\ editingItem[m]
  /\ \/ \E amount \in AmountValues :
          editValues' = [editValues EXCEPT
                           ![m] = withField(@, "amount", amount)]
     \/ \E split_type \in EditSplitTypes :
          editValues' = [editValues EXCEPT
                           ![m] = withField(@, "split_type", split_type)]
  /\ UNCHANGED <<db_line_item, memberItem, editingItem, updateLog>>
  /\ UNCHANGED outsideItemEdit

\* The cancel button of the edit row.
onEditCancel(m) ==
  /\ editingItem[m]
  /\ editingItem' = [editingItem EXCEPT ![m] = FALSE]
  /\ editValues' = [editValues EXCEPT ![m] = <<>>]
  /\ UNCHANGED <<db_line_item, memberItem, updateLog>>
  /\ UNCHANGED outsideItemEdit

\* handleUpdateItem of the edit row: PATCH editValues, leave edit mode,
\* loadBudget.
itemHandleUpdateItem(m) ==
  /\ editingItem[m]
  /\ Len(updateLog) < MaxUpdates
  /\ db_line_item' = updateBudgetLineItem(db_line_item, editValues[m])
  /\ updateLog' = Append(updateLog, [member |-> m, data |-> editValues[m],
                                     before |-> db_line_item])
  /\ editingItem' = [editingItem EXCEPT ![m] = FALSE]
  /\ editValues' = [editValues EXCEPT ![m] = <<>>]
  /\ memberItem' = [memberItem EXCEPT ![m] = serializeLineItem(db_line_item')]
  /\ UNCHANGED outsideItemEdit

NextItemEdit ==
  \E m \in Members :
    \/ itemLoadBudget(m)
    \/ onEditClick(m)
    \/ onEditChange(m)
    \/ onEditCancel(m)
    \/ itemHandleUpdateItem(m)

SpecItemEdit == Init /\ [][NextItemEdit]_vars

----------------------------------------------------------------------------
(* The api client: the request interceptor that attaches the access token  *)
(* and the response interceptor that refreshes it.  A request is followed  *)
(* from its first sending to the promise its caller holds being settled;   *)
(* sends and refreshCalls count what was done for it.                      *)

\* Largest number of requests made in the model.
MaxRequests == 2

\* What localStorage can hold when the tab is opened.
Storages ==
  [access_token : {"none", "stale"}, refresh_token : {"none", "r1"}]

\* The statuses of the error responses of the server.
UNAUTHORIZED == 401
ErrorStatuses == {UNAUTHORIZED, 500}

\* The tab as opened.
InitApi ==
  /\ HouseBudgetMounted
  /\ InvestmentsMounted
  /\ SummaryIdle
  /\ OtherComponentsMounted
  /\ TransactionsMounted
  /\ localStorage \in Storages
  /\ location = "/"
  /\ requests = <<>>

\* The request interceptor: the Authorization header of a request sent now.
requestInterceptor(storage) == storage.access_token

\* Variant: a refresh for every 401, the mark on the request not looked at.
shouldRefresh_Unmarked(status, retry) == status = UNAUTHORIZED

\* error.response?.status === 401 && !originalRequest._retry
shouldRefresh(status, retry) == status = UNAUTHORIZED /\ ~retry

\* Variant: the catch branch removing the access token only.
onRefreshFailed_AccessOnly(storage) ==
  [storage EXCEPT !.access_token = "none"]

\* The catch branch of the refresh: both items removed.
onRefreshFailed(storage) ==
  [access_token |-> "none", refresh_token |-> "none"]

\* A caller makes a request through api.
apiRequest ==
  /\ Len(requests) < MaxRequests
  /\ requests' = Append(requests,
                        [pc |-> "sent",
                         Authorization |-> requestInterceptor(localStorage),
                         _retry |-> FALSE,
                         sends |-> 1,
                         refreshCalls |-> 0,
                         error |-> NULL,
                         rejected |-> NULL])
  /\ UNCHANGED <<localStorage, location>>
  /\ UNCHANGED outsideApi

\* The response of request r is a success: the promise is resolved.
responseSuccess(r) ==
  /\ requests[r].pc = "sent"
  /\ requests' = [requests EXCEPT ![r].pc = "resolved"]
  /\ UNCHANGED <<localStorage, location>>
  /\ UNCHANGED outsideApi

\* The response of request r is an error: the response interceptor up to
\* its first await.  A 401 for a request not marked marks it and, with a
\* refresh token stored, posts the refresh; any other case rejects.
responseError(r) ==
  /\ requests[r].pc = "sent"
  /\ \E status \in ErrorStatuses :
       LET error == [status |-> status, attempt |-> requests[r].sends]
       IN  IF shouldRefresh(status, requests[r]._retry)
           THEN IF localStorage.refresh_token # "none"
                THEN requests' = [requests EXCEPT
                                    ![r]._retry = TRUE,
                                    ![r].pc = "refreshing",
                                    ![r].refreshCalls = @ + 1,
                                    ![r].error = error]
                ELSE requests' = [requests EXCEPT
                                    ![r]._retry = TRUE,
                                    ![r].pc = "rejected",
                                    ![r].error = error,
                                    ![r].rejected = error]
           ELSE requests' = [requests EXCEPT
                               ![r].pc = "rejected",
                               ![r].error = error,
                               ![r].rejected = error]
  /\ UNCHANGED <<localStorage, location>>
  /\ UNCHANGED outsideApi

\* The refresh posted for request r succeeds: the new access token is
\* stored and the request is sent again through api.
refreshSuccess(r) ==
  /\ requests[r].pc = "refreshing"
  /\ localStorage' = [localStorage EXCEPT !.access_token = "fresh"]
  /\ requests' = [requests EXCEPT
                     ![r].pc = "sent",
                     ![r].sends = @ + 1,
                     ![r].Authorization = requestInterceptor(localStorage')]
  /\ UNCHANGED location
  /\ UNCHANGED outsideApi

\* The refresh posted for request r fails: the catch branch, then the
\* rejection with the error the interceptor was called with.
refreshFailure(r) ==
  /\ requests[r].pc = "refreshing"
  /\ localStorage' = onRefreshFailed(localStorage)
  /\ location' = "/login"
  /\ requests' = [requests EXCEPT
                     ![r].pc = "rejected",
                     ![r].rejected = requests[r].error]
  /\ UNCHANGED outsideApi

NextApi ==
  \/ apiRequest
  \/ \E r \in DOMAIN requests : responseSuccess(r)
  \/ \E r \in DOMAIN requests : responseError(r)
  \/ \E r \in DOMAIN requests : refreshSuccess(r)
  \/ \E r \in DOMAIN requests : refreshFailure(r)

SpecApi == InitApi /\ [][NextApi]_vars

----------------------------------------------------------------------------
(* The routes.  /login is wrapped in PublicRoute, every other path in      *)
(* PrivateRoute; both read isLoading and isAuthenticated from useAuth().   *)
(* A rendered <Navigate> is followed in a step of its own.                 *)

\* Largest number of entries the history of the tab keeps in the model.
MaxHistory == 3

\* Sample paths: the dashboard, one more private page, the login page.
Paths == {"/", "/goals", "/login"}

\* What a route can render.
Spinner == [kind |-> "spinner", to |-> ""]
Children == [kind |-> "children", to |-> ""]
Navigate(to) == [kind |-> "navigate", to |-> to]

\* Variant: no spinner, an unauthenticated tab redirected even while the
\* authentication is loading.
PrivateRoute_NoSpinner(a) ==
  IF ~a.isAuthenticated THEN Navigate("/login")
  ELSE Children

PrivateRoute(a) ==
  IF a.isLoading THEN Spinner
  ELSE IF ~a.isAuthenticated THEN Navigate("/login")
  ELSE Children

PublicRoute(a) ==
  IF a.isLoading THEN Spinner
  ELSE IF a.isAuthenticated THEN Navigate("/")
  ELSE Children

\* <Routes>: the element of the route of the path.
AppRoutes(path, a) ==
  IF path = "/login" THEN PublicRoute(a) ELSE PrivateRoute(a)

\* The current path.
CurrentPath == history[Len(history)]

\* history.push, the oldest entry dropped from a full history.
Push(h, path) ==
  IF Len(h) < MaxHistory THEN Append(h, path)
  ELSE Append(Tail(h), path)

\* The AuthProvider changes what useAuth() gives; the route renders again.
authChange ==
  /\ \E a \in [isLoading : BOOLEAN, isAuthenticated : BOOLEAN] :
       /\ a # auth
       /\ auth' = a
       /\ rendered' = AppRoutes(CurrentPath, a)
  /\ redirects' = 0
  /\ UNCHANGED history
  /\ UNCHANGED outsideRoutes

\* The user follows a link or types a path.
userNavigate ==
  /\ \E path \in Paths :
       /\ history' = Push(history, path)
       /\ rendered' = AppRoutes(path, auth)
  /\ redirects' = 0
  /\ UNCHANGED auth
  /\ UNCHANGED outsideRoutes

\* The user goes back.
userBack ==
  /\ Len(history) > 1
  /\ history' = SubSeq(history, 1, Len(history) - 1)
  /\ rendered' = AppRoutes(history'[Len(history')], auth)
  /\ redirects' = 0
  /\ UNCHANGED auth
  /\ UNCHANGED outsideRoutes

\* The rendered <Navigate to=...> navigates; the route of the new path
\* renders.
followNavigate ==
  /\ rendered.kind = "navigate"
  /\ history' = Push(history, rendered.to)
  /\ rendered' = AppRoutes(rendered.to, auth)
  /\ redirects' = redirects + 1
  /\ UNCHANGED auth
  /\ UNCHANGED outsideRoutes

NextRoutes ==
  \/ authChange
  \/ userNavigate
  \/ userBack
  \/ followNavigate

SpecRoutes == Init /\ [][NextRoutes]_vars

----------------------------------------------------------------------------
(* The Transactions page: the first page of transactions loaded by         *)
(* loadData, further pages by loadMore when the end of the list scrolls    *)
(* into view.  A request is answered from the transactions stored when it  *)
(* is made; its response arrives in a later step, in any order with the    *)
(* other responses.                                                        *)

\* The page size of the model (50 in the source).
PAGE_SIZE == 2

\* Largest number of transactions stored when the page is opened, largest
\* id a transaction gets, largest number of responses in flight.
MaxSeedTransactions == 4
MaxTransactions == 5
MaxInFlight == 2

\* The lists of stored transactions the page can be opened on: the ids
\* descending, as transactions stored one after the other are listed, or in
\* any order.
SeedTransactionsNewestFirst ==
  {[i \in 1..n |-> n + 1 - i] : n \in 0..MaxSeedTransactions}

SeedTransactions ==
  {s \in UNION {[1..n -> 1..MaxSeedTransactions] : n \in 0..MaxSeedTransactions} :
     \A i, j \in DOMAIN s : i # j => s[i] # s[j]}

\* The smaller of two numbers.
Min(a, b) == IF a < b THEN a ELSE b

\* The list without the transaction id.
WithoutId(list, id) == SelectSeq(list, LAMBDA x : x # id)

\* GET /transactions/?limit=&offset= on the stored transactions.
getTransactions(db, limit, offset) ==
  [results |-> SubSeq(db, offset + 1, Min(offset + limit, Len(db))),
   count |-> Len(db)]

\* The response of the request loadData makes.
loadDataRequest(db) ==
  LET txRes == getTransactions(db, PAGE_SIZE, 0)
  IN  [kind |-> "loadData", results |-> txRes.results, count |-> txRes.count,
       length |-> 0, total |-> 0]

\* Variant: loadMore asking for the first page again.
loadMoreRequest_FirstPage(db, length, total) ==
  LET response == getTransactions(db, PAGE_SIZE, 0)
  IN  [kind |-> "loadMore", results |-> response.results,
       count |-> response.count, length |-> length, total |-> total]

\* The response of the request loadMore makes, with the transactions.length
\* and the totalCount of the render loadMore belongs to.
loadMoreRequest(db, length, total) ==
  LET response == getTransactions(db, PAGE_SIZE, length)
  IN  [kind |-> "loadMore", results |-> response.results,
       count |-> response.count, length |-> length, total |-> total]

\* The page opened on the stored transactions db, loadData called.
TransactionsOpenedOn(db) ==
  /\ HouseBudgetMounted
  /\ InvestmentsMounted
  /\ SummaryIdle
  /\ OtherComponentsMounted
  /\ ApiIdle
  /\ db_transactions = db
  /\ nextId = MaxSeedTransactions + 1
  /\ transactions = <<>>
  /\ totalCount = 0
  /\ hasMore = TRUE
  /\ loadingMore = FALSE
  /\ txLoading = TRUE
  /\ inFlight = {loadDataRequest(db)}

InitTransactions ==
  \E db \in SeedTransactionsNewestFirst : TransactionsOpenedOn(db)

InitTransactionsStable ==
  \E db \in SeedTransactions : TransactionsOpenedOn(db)

\* The response of a loadData arrives.
txLoadDataResponse ==
  /\ \E txRes \in inFlight :
       /\ txRes.kind = "loadData"
       /\ LET txData == txRes.results
              count == IF txRes.count # 0 THEN txRes.count ELSE Len(txData)
          IN  /\ transactions' = txData
              /\ totalCount' = count
              /\ hasMore' = (Len(txData) < count)
       /\ inFlight' = inFlight \ {txRes}
  /\ txLoading' = FALSE
  /\ UNCHANGED <<db_transactions, nextId, loadingMore>>
  /\ UNCHANGED outsideTransactions

\* The request of a loadData fails: the error is logged, loading ends.
txLoadDataError ==
  /\ \E txRes \in inFlight :
       /\ txRes.kind = "loadData"
       /\ inFlight' = inFlight \ {txRes}
  /\ txLoading' = FALSE
  /\ UNCHANGED <<db_transactions, nextId, transactions, totalCount, hasMore,
                 loadingMore>>
  /\ UNCHANGED outsideTransactions

\* The end of the list scrolls into view: the observer calls loadMore, which
\* makes its request.
loadMore ==
  /\ ~txLoading
  /\ hasMore /\ ~loadingMore
  /\ loadingMore' = TRUE
  /\ inFlight' = inFlight \cup
       {loadMoreRequest(db_transactions, Len(transactions), totalCount)}
  /\ UNCHANGED <<db_transactions, nextId, transactions, totalCount, hasMore,
                 txLoading>>
  /\ UNCHANGED outsideTransactions

\* The response of the loadMore arrives.
loadMoreResponse ==
  /\ \E response \in inFlight :
       /\ response.kind = "loadMore"
       /\ LET newTx == response.results
          IN  /\ transactions' = transactions \o newTx
              /\ hasMore' = (response.length + Len(newTx) < response.total)
       /\ inFlight' = inFlight \ {response}
  /\ loadingMore' = FALSE
  /\ UNCHANGED <<db_transactions, nextId, totalCount, txLoading>>
  /\ UNCHANGED outsideTransactions

\* The request of the loadMore fails: the error is logged.
loadMoreError ==
  /\ \E response \in inFlight :
       /\ response.kind = "loadMore"
       /\ inFlight' = inFlight \ {response}
  /\ loadingMore' = FALSE
  /\ UNCHANGED <<db_transactions, nextId, transactions, totalCount, hasMore,
                 txLoading>>
  /\ UNCHANGED outsideTransactions

\* handleSubmit of the Add Transaction form: the transaction is stored, the
\* newest of the list, and loadData is called.
txHandleSubmit ==
  /\ ~txLoading
  /\ nextId <= MaxTransactions
  /\ Cardinality(inFlight) < MaxInFlight
  /\ db_transactions' = <<nextId>> \o db_transactions
  /\ nextId' = nextId + 1
  /\ inFlight' = inFlight \cup {loadDataRequest(db_transactions')}
  /\ UNCHANGED <<transactions, totalCount, hasMore, loadingMore, txLoading>>
  /\ UNCHANGED outsideTransactions

\* handleDelete of a listed transaction, confirmed: the transaction is
\* deleted and loadData is called.
txHandleDelete ==
  /\ ~txLoading
  /\ Cardinality(inFlight) < MaxInFlight
  /\ \E i \in DOMAIN transactions :
       /\ \E j \in DOMAIN db_transactions :
            db_transactions[j] = transactions[i]
       /\ db_transactions' = WithoutId(db_transactions, transactions[i])
  /\ inFlight' = inFlight \cup {loadDataRequest(db_transactions')}
  /\ UNCHANGED <<nextId, transactions, totalCount, hasMore, loadingMore,
                 txLoading>>
  /\ UNCHANGED outsideTransactions

NextTransactions ==
  \/ txLoadDataResponse
  \/ txLoadDataError
  \/ loadMore
  \/ loadMoreResponse
  \/ loadMoreError
  \/ txHandleSubmit
  \/ txHandleDelete

SpecTransactions == InitTransactions /\ [][NextTransactions]_vars

\* The page on stored transactions that do not change, every request
\* answered: the list scrolled to its end again and again.
NextTransactionsStable ==
  \/ txLoadDataResponse
  \/ loadMore
  \/ loadMoreResponse

SpecTransactionsStable ==
  /\ InitTransactionsStable
  /\ [][NextTransactionsStable]_vars
  /\ WF_vars(txLoadDataResponse)
  /\ WF_vars(loadMore)
  /\ WF_vars(loadMoreResponse)

----------------------------------------------------------------------------
(* The Monthly Tracking page.  The months of the category spending are     *)
(* numbered from the latest, 1; the server lists them in that order.  How  *)
(* many it lists is the server's matter: a response can be any such list.  *)

\* Largest number of months the server lists in the model.
MaxMonths == 3

\* The lists getCategorySpending can return.
MonthLists == {[i \in 1..n |-> i] : n \in 0..MaxMonths}

\* Sample categories of CATEGORY_CONFIG.
Categories == {"Groceries", "Transport"}

\* The larger of two numbers.
Max(a, b) == IF a > b THEN a ELSE b

\* data[i] for an index from 0: the month, or 0 for undefined.
MonthAt(months, i) ==
  IF i >= 0 /\ i < Len(months) THEN months[i + 1] ELSE 0

\* res.data.find(m => m.year === month.year && m.month === month.month)
\*   || null
FindMonth(months, month) ==
  IF \E k \in DOMAIN months : months[k] = month THEN month ELSE 0

\* loadData, the request succeeding.
monthlyLoadData ==
  /\ monthlyLoading
  /\ \E res \in MonthLists : data' = res
  /\ monthlyLoading' = FALSE
  /\ UNCHANGED <<selectedMonthIndex, selectedCategory, detailData>>
  /\ UNCHANGED outsideMonthly

\* loadData, the request failing.
monthlyLoadDataError ==
  /\ monthlyLoading
  /\ monthlyLoading' = FALSE
  /\ UNCHANGED <<data, selectedMonthIndex, selectedCategory, detailData>>
  /\ UNCHANGED outsideMonthly

\* The left button of the month selector, to the month before.
olderMonthClick ==
  /\ ~monthlyLoading
  /\ ~(selectedMonthIndex >= Len(data) - 1)
  /\ selectedMonthIndex' = Min(selectedMonthIndex + 1, Len(data) - 1)
  /\ UNCHANGED <<data, monthlyLoading, selectedCategory, detailData>>
  /\ UNCHANGED outsideMonthly

\* The right button of the month selector, to the month after.
newerMonthClick ==
  /\ ~monthlyLoading
  /\ ~(selectedMonthIndex <= 0)
  /\ selectedMonthIndex' = Max(selectedMonthIndex - 1, 0)
  /\ UNCHANGED <<data, monthlyLoading, selectedCategory, detailData>>
  /\ UNCHANGED outsideMonthly

\* A row of the history table clicked.
historyRowClick ==
  /\ ~monthlyLoading
  /\ \E idx \in 0..(Len(data) - 1) : selectedMonthIndex' = idx
  /\ UNCHANGED <<data, monthlyLoading, selectedCategory, detailData>>
  /\ UNCHANGED outsideMonthly

\* handleCategoryClick on a category card of the current month, with
\* loadDetailData when the detail is of another month.
handleCategoryClick ==
  /\ ~monthlyLoading
  /\ MonthAt(data, selectedMonthIndex) # 0
  /\ \E categoryName \in Categories : selectedCategory' = categoryName
  /\ \/ /\ detailData = 0 \/ detailData # MonthAt(data, selectedMonthIndex)
        /\ \/ \E res \in MonthLists :
                detailData' = FindMonth(res, MonthAt(data, selectedMonthIndex))
           \/ UNCHANGED detailData
     \/ /\ ~(detailData = 0 \/ detailData # MonthAt(data, selectedMonthIndex))
        /\ UNCHANGED detailData
  /\ UNCHANGED <<data, monthlyLoading, selectedMonthIndex>>
  /\ UNCHANGED outsideMonthly

\* The close button of the transaction list.
closeCategory ==
  /\ selectedCategory # ""
  /\ selectedCategory' = ""
  /\ UNCHANGED <<data, monthlyLoading, selectedMonthIndex, detailData>>
  /\ UNCHANGED outsideMonthly

\* handleToggleExclusion on a listed transaction: the exclusion is toggled,
\* then loadData, then loadDetailData(selectedMonthIndex) with the data of
\* the render the handler belongs to.  Either load can fail.
handleToggleExclusion ==
  /\ ~monthlyLoading
  /\ selectedCategory # ""
  /\ detailData # 0
  /\ \/ \E res \in MonthLists : data' = res
     \/ UNCHANGED data
  /\ \/ /\ MonthAt(data, selectedMonthIndex) # 0
        /\ \E res \in MonthLists :
             detailData' = FindMonth(res, MonthAt(data, selectedMonthIndex))
     \/ UNCHANGED detailData
  /\ UNCHANGED <<monthlyLoading, selectedMonthIndex, selectedCategory>>
  /\ UNCHANGED outsideMonthly

NextMonthly ==
  \/ monthlyLoadData
  \/ monthlyLoadDataError
  \/ olderMonthClick
  \/ newerMonthClick
  \/ historyRowClick
  \/ handleCategoryClick
  \/ closeCategory
  \/ handleToggleExclusion

SpecMonthly == Init /\ [][NextMonthly]_vars

----------------------------------------------------------------------------
(* The Integrations page and its import dialog.  The handlers are called   *)
(* by the controls of the dialog as it is rendered: the form with the      *)
(* Import button only while importResult is null, the button disabled      *)
(* without a file or an account and while importing.                       *)

\* Sample lists of accounts and sample files.
AccountLists == {<<>>, <<1>>, <<1, 2>>}
Files == {"a.csv", "b.csv", "c.csv"}

\* Sample results of an import and the error messages.
ImportResults == {"imported"}
PleaseSelect == "Please select a file and account"
ImportErrors == {"Failed to import file", "Invalid CSV format"}

\* accounts[0]?.id || null
FirstAccountId(list) == IF Len(list) > 0 THEN list[1] ELSE 0

\* Variant: the error of the import before left in place when an import
\* starts.
importErrorOnStart_Kept(error) == error

\* handleImport before its request: setImportError(null).
importErrorOnStart(error) == ""

\* loadData on mount, the requests succeeding.
integrationsLoadData ==
  /\ integrationsLoading
  /\ \E list \in AccountLists : accounts' = list
  /\ integrationsLoading' = FALSE
  /\ UNCHANGED <<importing, showImportModal, selectedFile, selectedAccountId,
                 importResult, importError, importRequest>>
  /\ UNCHANGED outsideIntegrations

\* loadData on mount, a request failing.
integrationsLoadDataError ==
  /\ integrationsLoading
  /\ integrationsLoading' = FALSE
  /\ UNCHANGED <<accounts, importing, showImportModal, selectedFile,
                 selectedAccountId, importResult, importError, importRequest>>
  /\ UNCHANGED outsideIntegrations

openImportModal ==
  /\ ~integrationsLoading
  /\ ~showImportModal
  /\ showImportModal' = TRUE
  /\ selectedFile' = ""
  /\ selectedAccountId' = FirstAccountId(accounts)
  /\ importResult' = ""
  /\ importError' = ""
  /\ UNCHANGED <<accounts, integrationsLoading, importing, importRequest>>
  /\ UNCHANGED outsideIntegrations

\* closeModal, by the X, Cancel or Done button.
closeImportModal ==
  /\ showImportModal
  /\ showImportModal' = FALSE
  /\ selectedFile' = ""
  /\ importResult' = ""
  /\ importError' = ""
  /\ UNCHANGED <<accounts, integrationsLoading, importing, selectedAccountId,
                 importRequest>>
  /\ UNCHANGED outsideIntegrations

\* handleFileSelect with a file chosen in the form.
handleFileSelect ==
  /\ showImportModal
  /\ importResult = ""
  /\ \E file \in Files : selectedFile' = file
  /\ importError' = ""
  /\ importResult' = ""
  /\ UNCHANGED <<accounts, integrationsLoading, importing, showImportModal,
                 selectedAccountId, importRequest>>
  /\ UNCHANGED outsideIntegrations

\* The account select of the form.
selectAccount ==
  /\ showImportModal
  /\ importResult = ""
  /\ \E k \in DOMAIN accounts : selectedAccountId' = accounts[k]
  /\ UNCHANGED <<accounts, integrationsLoading, importing, showImportModal,
                 selectedFile, importResult, importError, importRequest>>
  /\ UNCHANGED outsideIntegrations

\* handleImport, by the Import button of the form, to its await.
handleImport ==
  /\ showImportModal
  /\ importResult = ""
  /\ ~(selectedFile = "" \/ selectedAccountId = 0 \/ importing)
  /\ IF selectedFile = "" \/ selectedAccountId = 0
     THEN /\ importError' = PleaseSelect
          /\ UNCHANGED <<importing, importResult, importRequest>>
     ELSE /\ importing' = TRUE
          /\ importError' = importErrorOnStart(importError)
          /\ importResult' = ""
          /\ importRequest' = selectedFile
  /\ UNCHANGED <<accounts, integrationsLoading, showImportModal, selectedFile,
                 selectedAccountId>>
  /\ UNCHANGED outsideIntegrations

\* The import succeeds: the result is shown and loadData refreshes the
\* accounts.
importResolved ==
  /\ importRequest # ""
  /\ \E result \in ImportResults : importResult' = result
  /\ \/ \E list \in AccountLists : accounts' = list
     \/ UNCHANGED accounts
  /\ importing' = FALSE
  /\ importRequest' = ""
  /\ UNCHANGED <<integrationsLoading, showImportModal, selectedFile,
                 selectedAccountId, importError>>
  /\ UNCHANGED outsideIntegrations

\* The import fails: the error of the response or the default one.
importRejected ==
  /\ importRequest # ""
  /\ \E error \in ImportErrors : importError' = error
  /\ importing' = FALSE
  /\ importRequest' = ""
  /\ UNCHANGED <<accounts, integrationsLoading, showImportModal, selectedFile,
                 selectedAccountId, importResult>>
  /\ UNCHANGED outsideIntegrations

NextIntegrations ==
  \/ integrationsLoadData
  \/ integrationsLoadDataError
  \/ openImportModal
  \/ closeImportModal
  \/ handleFileSelect
  \/ selectAccount
  \/ handleImport
  \/ importResolved
  \/ importRejected

SpecIntegrations == Init /\ [][NextIntegrations]_vars

----------------------------------------------------------------------------
(* Properties of the house budget figures.                                 *)

Loaded == budget # NULL

Items == budget.line_items

\* The sum of f over the index set I.
RECURSIVE SumOver(_, _)
SumOver(f, I) ==
  IF I = {} THEN 0
  ELSE LET i == CHOOSE x \in I : TRUE IN f[i] + SumOver(f, I \ {i})

AmountOf == [i \in DOMAIN Items |-> Items[i].amount]
PrimaryAmountOf == [i \in DOMAIN Items |-> Items[i].primary_amount]
PartnerAmountOf == [i \in DOMAIN Items |-> Items[i].partner_amount]

\* A shared item whose primary part is not a whole number of minor units.
Uneven(item) ==
  /\ item.split_type = "shared"
  /\ (item.amount * item.primary_share_percent) % 100 # 0

\* C1 - Split conservation: for every line item of the loaded budget with
\* amount >= 0 and primary_share_percent in 0..100, of any split type,
\* primary_amount + partner_amount = amount.
C1_SplitConservation ==
  Loaded =>
    \A i \in DOMAIN Items :
      (Items[i].amount >= 0 /\ Items[i].primary_share_percent \in 0..100)
        => Items[i].primary_amount + Items[i].partner_amount = Items[i].amount

\* A loaded budget holding a shared item that does not divide evenly.
C1_Witness ==
  /\ Loaded
  /\ \E i \in DOMAIN Items : Uneven(Items[i])

\* C2 - A shared item's primary_amount is amount * primary_share_percent / 100
\* (to the minor unit: exactly so when that is a whole number, as 100 at 70%
\* giving 70) and its partner_amount is amount - primary_amount (30).
C2_SharedSplit ==
  Loaded =>
    \A i \in DOMAIN Items :
      Items[i].split_type = "shared" =>
        LET exact == Items[i].amount * Items[i].primary_share_percent
        IN  /\ Items[i].primary_amount * 100 <= exact
            /\ exact < (Items[i].primary_amount + 1) * 100
            /\ Items[i].partner_amount = Items[i].amount - Items[i].primary_amount
            /\ (Items[i].amount = 100 /\ Items[i].primary_share_percent = 70)
                 => (Items[i].primary_amount = 70 /\ Items[i].partner_amount = 30)

\* A loaded budget holding the shared item of amount 100 at 70%.
C2_Witness ==
  /\ Loaded
  /\ \E i \in DOMAIN Items :
       /\ Items[i].split_type = "shared"
       /\ Items[i].amount = 100
       /\ Items[i].primary_share_percent = 70

\* C3 - A personal_primary item splits into (amount, 0) and a
\* personal_partner item into (0, amount), whatever primary_share_percent.
C3_ExclusiveSplit ==
  Loaded =>
    \A i \in DOMAIN Items :
      /\ Items[i].split_type = "personal_primary" =>
           (Items[i].primary_amount = Items[i].amount /\ Items[i].partner_amount = 0)
      /\ Items[i].split_type = "personal_partner" =>
           (Items[i].primary_amount = 0 /\ Items[i].partner_amount = Items[i].amount)

\* A loaded budget holding a personal_primary and a personal_partner item,
\* both with a share below 100%.
C3_Witness ==
  /\ Loaded
  /\ \E i, j \in DOMAIN Items :
       /\ Items[i].split_type = "personal_primary"
       /\ Items[j].split_type = "personal_partner"
       /\ Items[i].primary_share_percent < 100
       /\ Items[j].primary_share_percent < 100

\* C4 - After any sequence of line-item creations, edits and deletions, the
\* primary amounts of the budget's items plus their partner amounts sum to
\* their amounts.
C4_TotalsConserved ==
  Loaded =>
    SumOver(PrimaryAmountOf, DOMAIN Items) + SumOver(PartnerAmountOf, DOMAIN Items)
      = SumOver(AmountOf, DOMAIN Items)

\* A loaded budget of two items of different split types, one of them a
\* shared item that does not divide evenly.
C4_Witness ==
  /\ Loaded
  /\ Len(Items) = 2
  /\ Uneven(Items[1])
  /\ Items[2].split_type # "shared"
  /\ SumOver(PrimaryAmountOf, DOMAIN Items) > 0
  /\ SumOver(PartnerAmountOf, DOMAIN Items) > 0

PartnerIncomeIndices ==
  {i \in DOMAIN Items :
     Items[i].split_type = "personal_partner" /\ Items[i].group = "Income"}

PrimaryIndices == {i \in DOMAIN Items : Items[i].split_type = "personal_primary"}

\* C5 - available_pot is primary_salary plus the amounts of exactly the
\* personal_partner items of group "Income"; personal_partner items of other
\* groups add nothing.
C5_AvailablePot ==
  Loaded =>
    availablePot(budget) = budget.primary_salary + SumOver(AmountOf, PartnerIncomeIndices)

\* A loaded budget holding a personal_partner item in group "Income" and one
\* in another group.
C5_Witness ==
  /\ Loaded
  /\ \E i, j \in DOMAIN Items :
       /\ Items[i].split_type = "personal_partner" /\ Items[i].group = "Income"
       /\ Items[j].split_type = "personal_partner" /\ Items[j].group # "Income"

\* C6 - remaining is available_pot less primary_outgoing, the amounts of all
\* personal_primary items of any category type and any group.
C6_Remaining ==
  Loaded =>
    /\ nishantOutgoing(budget) = SumOver(AmountOf, PrimaryIndices)
    /\ remaining(budget) = availablePot(budget) - SumOver(AmountOf, PrimaryIndices)

\* A loaded budget holding a personal_primary item in group "Income" and a
\* personal_primary item in another group.
C6_Witness ==
  /\ Loaded
  /\ \E i, j \in DOMAIN Items :
       /\ Items[i].split_type = "personal_primary" /\ Items[i].group = "Income"
       /\ Items[j].split_type = "personal_primary" /\ Items[j].group # "Income"

PrimaryExpenseSavingIndices ==
  {i \in PrimaryIndices : Items[i].category_type \in {"expense", "saving"}}

PrimaryInvestmentIndices ==
  {i \in PrimaryIndices : Items[i].category_type = "investment"}

\* C7 as stated - remaining is available_pot less the personal_primary items
\* of category type expense or saving; a personal_primary investment item
\* does not reduce it.
C7_Original ==
  (Loaded /\ budget.primary_salary >= 0) =>
    remaining(budget)
      = availablePot(budget) - SumOver(AmountOf, PrimaryExpenseSavingIndices)

\* C7 as amended - remaining is available_pot less the personal_primary items
\* of category type expense or saving and less the personal_primary items of
\* category type investment: an investment item reduces it by its amount.
C7_Amended ==
  Loaded =>
    remaining(budget)
      = availablePot(budget) - SumOver(AmountOf, PrimaryExpenseSavingIndices)
                             - SumOver(AmountOf, PrimaryInvestmentIndices)

\* A loaded budget holding a personal_primary investment item next to a
\* personal_primary expense or saving item.
C7_Witness ==
  /\ Loaded
  /\ PrimaryInvestmentIndices # {}
  /\ PrimaryExpenseSavingIndices # {}

OverBudgetShown ==
  /\ remainingCardLabel(budget) = "Over budget!"
  /\ monthlyBufferLabel(budget) = "Over budget"
  /\ moneyFlowLabel(budget) = "Over budget"

NoOverBudgetShown ==
  /\ remainingCardLabel(budget) # "Over budget!"
  /\ monthlyBufferLabel(budget) # "Over budget"
  /\ moneyFlowLabel(budget) # "Over budget"

\* C8 - When primary_outgoing exceeds available_pot, remaining is the
\* negative difference and the Remaining card, the Monthly Buffer check and
\* the Money Flow summary all say over budget; when remaining >= 0 none does.
C8_OverBudgetSurfaced ==
  Loaded =>
    /\ SumOver(AmountOf, PrimaryIndices) > availablePot(budget) =>
         /\ remaining(budget) < 0
         /\ remaining(budget) = availablePot(budget) - SumOver(AmountOf, PrimaryIndices)
         /\ OverBudgetShown
    /\ remaining(budget) >= 0 => NoOverBudgetShown

\* A loaded budget with available_pot 100 and primary_outgoing 101.
C8_Witness ==
  /\ Loaded
  /\ availablePot(budget) = 100
  /\ SumOver(AmountOf, PrimaryIndices) = 101

PrimarySavingIndices ==
  {i \in PrimaryIndices : Items[i].category_type = "saving"}

\* C9 - savings_rate is primary_savings / available_pot * 100 when
\* available_pot > 0, primary_savings summing the personal_primary items of
\* category type saving only, and is exactly 0 when available_pot <= 0.
C9_SavingsRate ==
  Loaded =>
    LET rate == savingsRate(budget)
        pot == budget.primary_salary + SumOver(AmountOf, PartnerIncomeIndices)
        savings == SumOver(AmountOf, PrimarySavingIndices)
    IN  /\ pot > 0 =>
             /\ rate.kind = "fin"
             /\ rate.d > 0
             /\ rate.n * pot = savings * 100 * rate.d
        /\ pot <= 0 => rate = Zero

\* A loaded budget with an available_pot of 0 and savings of the primary
\* member to divide by it.
C9_Witness ==
  /\ Loaded
  /\ availablePot(budget) = 0
  /\ SumOver(AmountOf, PrimarySavingIndices) > 0

\* The ratios and percentages the page derives by division.
DerivedRatios ==
  {primarySharePercent(budget), partnerSharePercent(budget),
   expensesPercentOfAvailable(budget), allocatedPercent(budget),
   savingsRate(budget)}

\* C10 - Every division made when deriving the budget figures is guarded:
\* for a budget within the documented ranges (primary_salary >= 0, amounts
\* >= 0), every ratio or percentage derived is a finite number, and is 0
\* when total income and available pot are 0.
C10_DivisionsGuarded ==
  (Loaded /\ budget.primary_salary >= 0) =>
    /\ \A r \in DerivedRatios : IsFinite(r)
    /\ (totalIncome(budget) = 0 /\ availablePot(budget) = 0) =>
         \A r \in DerivedRatios : r = Zero

PartnerIndices == {i \in DOMAIN Items : Items[i].split_type = "personal_partner"}

PartnerOutsideIncomeIndices == {i \in PartnerIndices : Items[i].group # "Income"}

\* C11 - available_pot never exceeds total household income (primary_salary
\* plus the amounts of all personal_partner items); the difference is the sum
\* of the personal_partner items whose group is not "Income".
C11_PotWithinIncome ==
  Loaded =>
    /\ totalIncome(budget) = budget.primary_salary + SumOver(AmountOf, PartnerIndices)
    /\ availablePot(budget) <= totalIncome(budget)
    /\ totalIncome(budget) - availablePot(budget)
         = SumOver(AmountOf, PartnerOutsideIncomeIndices)

\* A loaded budget in which the pot is strictly below the household income,
\* the partner having an item in the Income group and one outside it.
C11_Witness ==
  /\ Loaded
  /\ availablePot(budget) < totalIncome(budget)
  /\ PartnerIndices \ PartnerOutsideIncomeIndices # {}
  /\ PartnerOutsideIncomeIndices # {}

----------------------------------------------------------------------------
(* Properties of the grouping of line items.                               *)

Grouped == groupedItems(budget)

HasEmptyGroup(item) == item.group = ""

\* The items of line_items under the key group, in their order.
Under(group) ==
  IF HasKey(Grouped, group)
  THEN Grouped[CHOOSE k \in DOMAIN Grouped : Grouped[k].group = group].items
  ELSE <<>>

UniqueKeys ==
  \A k, l \in DOMAIN Grouped : Grouped[k].group = Grouped[l].group => k = l

EntrySizes == [k \in DOMAIN Grouped |-> Len(Grouped[k].items)]

\* C12 - In the grouped mapping an item whose group is the empty string is
\* under the key "Other": there is no key "", and the items found under
\* "Other" with an empty group are all the items of the budget with an empty
\* group, none dropped.
C12_EmptyGroupUnderOther ==
  Loaded =>
    /\ UniqueKeys
    /\ ~HasKey(Grouped, "")
    /\ SelectSeq(Under("Other"), HasEmptyGroup) = SelectSeq(Items, HasEmptyGroup)

\* A loaded budget holding an item with an empty group beside an item of a
\* named group.
C12_Witness ==
  /\ Loaded
  /\ \E i, j \in DOMAIN Items : Items[i].group = "" /\ Items[j].group # ""
  /\ Len(Under("Other")) > 0

----------------------------------------------------------------------------
(* Properties of the Overview tab.                                         *)

SavingIndices == {i \in DOMAIN Items : Items[i].category_type = "saving"}

IncomeSavingIndices == {i \in SavingIndices : Items[i].group = "Income"}

\* C14 - An item of group "Income" and category type saving is not counted
\* in the Total Savings of the Overview tab nor listed among its rows, yet
\* when it is a personal_partner item its amount is counted in the partner's
\* cash to the household and so in available_pot.
C14_IncomeSavingNotInSavings ==
  Loaded =>
    /\ savingsBreakdownTotal(budget)
         = SumOver(AmountOf, SavingIndices) - SumOver(AmountOf, IncomeSavingIndices)
    /\ \A j \in DOMAIN savingsBreakdownItems(budget) :
         savingsBreakdownItems(budget)[j].group # "Income"
    /\ kratiCashToHousehold(budget)
         = SumOver(AmountOf, IncomeSavingIndices \cap PartnerIndices)
           + SumOver(AmountOf, PartnerIncomeIndices \ SavingIndices)
    /\ availablePot(budget) = budget.primary_salary + kratiCashToHousehold(budget)

\* A loaded budget holding a personal_partner saving item of group "Income"
\* beside a saving item of another group.
C14_Witness ==
  /\ Loaded
  /\ IncomeSavingIndices \cap PartnerIndices # {}
  /\ SavingIndices \ IncomeSavingIndices # {}
  /\ savingsBreakdownTotal(budget) > 0
  /\ kratiCashToHousehold(budget) > 0

ExpenseIndices == {i \in DOMAIN Items : Items[i].category_type = "expense"}

\* C15 - Items of group "Income" are left out of the Spending Breakdown: an
\* expense item of group "Income" gives no "Income" row there, and the
\* totals of the rows add up to the expense items outside the Income group.
C15_IncomeExcludedFromSpending ==
  (Loaded /\ budget.primary_salary >= 0) =>
    LET rows == spendingBreakdown(budget)
        totals == [k \in DOMAIN rows |-> rows[k].total]
    IN  /\ \A k \in DOMAIN rows : rows[k].group # "Income"
        /\ SumOver(totals, DOMAIN rows)
             = SumOver(AmountOf, {i \in ExpenseIndices : Items[i].group # "Income"})

----------------------------------------------------------------------------
(* Order of the line items.                                                *)

\* The loaded budget with its line items rearranged by the permutation p.
Rearranged(p) ==
  [budget EXCEPT !.line_items = [i \in DOMAIN Items |-> Items[p[i]]]]

Range(seq) == {seq[k] : k \in DOMAIN seq}

GroupsOf(entries) == {entries[k].group : k \in DOMAIN entries}

\* C16 - The grouping depends on the line items only, not on their order:
\* with the items of the loaded budget in any other order, the set of groups
\* present is the same and every group has the same expense total and the
\* same saving total.
C16_OrderIrrelevant ==
  Loaded =>
    \A p \in Permutations(DOMAIN Items) :
      /\ GroupsOf(groupedItems(Rearranged(p))) = GroupsOf(groupedItems(budget))
      /\ Range(expensesByGroup(Rearranged(p))) = Range(expensesByGroup(budget))

\* A loaded budget of two items of different groups and different amounts,
\* whose groups are listed in another order when the items are rearranged.
C16_Witness ==
  /\ Loaded
  /\ Len(expensesByGroup(budget)) = 2
  /\ \E i, j \in DOMAIN Items : Items[i].amount # Items[j].amount
  /\ \E p \in Permutations(DOMAIN Items) :
       expensesByGroup(Rearranged(p)) # expensesByGroup(budget)

----------------------------------------------------------------------------
(* Properties of the Split View tab.                                       *)

\* The allow-list of essential groups the specification names.
EssentialGroups == {"Housing", "Living", "Transport", "Childcare", "Property"}

EssentialGroupExpenseIndices ==
  {i \in DOMAIN Items :
     Items[i].category_type = "expense" /\ Items[i].group \in EssentialGroups}

PrimaryExpenseIndices ==
  {i \in DOMAIN Items :
     Items[i].category_type = "expense" /\ Items[i].split_type = "personal_primary"}

----------------------------------------------------------------------------
(* Properties of the emergency fund coverage.                              *)

EssentialIndices ==
  {i \in DOMAIN snapshot.line_items :
     /\ snapshot.line_items[i].category_type = "expense"
     /\ snapshot.line_items[i].group \in snapshot.ESSENTIAL_GROUPS}

SnapshotAmountOf ==
  [i \in DOMAIN snapshot.line_items |-> snapshot.line_items[i].amount]

\* C18 - months_covered is emergency_fund_total / essential_monthly_expenses
\* when the essential expenses are above 0 (6500 over 1000 + 300 is 5); when
\* they sum to zero the fallback estimate is the divisor, and nothing is
\* divided by zero.
C18_MonthsCovered ==
  summary # NULL =>
    LET essential == SumOver(SnapshotAmountOf, EssentialIndices)
        months == summary.months_covered
        divisor == IF essential > 0 THEN essential ELSE snapshot.fallback
    IN  /\ IsFinite(months)
        /\ months.d > 0
        /\ months.n * divisor = snapshot.emergency_fund_total * months.d
        /\ (snapshot.emergency_fund_total = 6500 /\ essential = 1300)
             => months.n = 5 * months.d

\* A summary derived from a fund of 6500 with no essential expense among
\* the line items, which hold an expense outside the allow-list.
C18_Witness ==
  /\ summary # NULL
  /\ snapshot.emergency_fund_total = 6500
  /\ EssentialIndices = {}
  /\ \E i \in DOMAIN snapshot.line_items :
       snapshot.line_items[i].category_type = "expense"

\* A summary derived from a fund of 6500 and essential expenses of 1000 in
\* Housing and 300 in Transport.
C18_Example ==
  /\ summary # NULL
  /\ snapshot.emergency_fund_total = 6500
  /\ SumOver(SnapshotAmountOf, EssentialIndices) = 1300
  /\ Cardinality(EssentialIndices) = 2

----------------------------------------------------------------------------
(* Properties of the Investments page.                                     *)

InvestedOf == [i \in DOMAIN investments |-> investments[i].total_invested]
ValueOf == [i \in DOMAIN investments |-> investments[i].current_value]

\* C19 - The gain/loss shown is the current value less the value invested;
\* its percentage is gain/loss divided by the value invested, times 100,
\* when the value invested is above 0, and exactly 0 when it is 0.
C19_GainLoss ==
  LET invested == SumOver(InvestedOf, DOMAIN investments)
      value == SumOver(ValueOf, DOMAIN investments)
      percent == totalGainLossPercent(investments)
  IN  /\ totalGainLoss(investments) = value - invested
      /\ invested > 0 =>
           /\ percent.kind = "fin"
           /\ percent.d > 0
           /\ percent.n * invested = (value - invested) * 100 * percent.d
      /\ invested = 0 => percent = Zero

\* The page showing investments with nothing invested and a current value.
C19_Witness ==
  /\ investmentsLoading = FALSE
  /\ Len(investments) > 0
  /\ totalInvested(investments) = 0
  /\ totalValue(investments) > 0

----------------------------------------------------------------------------
(* Properties of the Goals page.                                           *)

\* The ids of the stored goals not deleted.
LiveGoals == {i \in DOMAIN db_goals : ~db_goals[i].deleted}

\* C21: every stored goal's current_amount is the amount it was created with
\* plus the sum of the amounts the accepted add-funds requests added,
\* whichever member added them and however old the list they added from.
C21_AddFundsExact ==
  \A i \in LiveGoals :
    db_goals[i].current_amount = db_goals[i].start + db_goals[i].added

\* C30: every stored goal is marked completed exactly when its current
\* amount has reached its target amount.
C30_CompletedIffReached ==
  \A i \in LiveGoals :
    db_goals[i].is_completed
      <=> db_goals[i].current_amount >= db_goals[i].target_amount

----------------------------------------------------------------------------
(* Properties of the line item edited from two browsers.                   *)

\* The latest accepted update.
LastUpdate == updateLog[Len(updateLog)]

\* C22: updates of a line item are last-write-wins.  Every update sent is
\* accepted, whatever was stored since the sender loaded the item, and after
\* it the stored item holds, for every field, the value the latest update
\* sent: the edit row sends the item whole, as loaded when editing began,
\* with the member's changes.
C22_LastWriteWins ==
  Len(updateLog) > 0 =>
    \A f \in LineItemFields :
      /\ f \in DOMAIN LastUpdate.data
      /\ db_line_item[f] = LastUpdate.data[f]

\* Both members began editing the item as first stored; the first saved a
\* new amount, the second a new split_type: the second update was accepted
\* and put the amount back to the one it had loaded.
C22_Witness ==
  /\ Len(updateLog) = 2
  /\ updateLog[1].member # updateLog[2].member
  /\ updateLog[1].data.amount # updateLog[1].before.amount
  /\ updateLog[2].before.amount = updateLog[1].data.amount
  /\ updateLog[2].data.amount = updateLog[1].before.amount
  /\ updateLog[2].data.split_type # updateLog[1].before.split_type
  /\ db_line_item.amount = updateLog[1].before.amount
  /\ db_line_item.split_type = updateLog[2].data.split_type

----------------------------------------------------------------------------
(* Properties of the api client.                                           *)

\* C23: for a request made through api at most one token refresh is posted
\* and the request is sent again at most once, after that refresh; a 401 for
\* the request sent again rejects it, so the 401 responses cannot keep the
\* interceptor refreshing and sending.
C23_OneRefreshOneRetry ==
  \A r \in DOMAIN requests :
    /\ requests[r].refreshCalls <= 1
    /\ requests[r].sends <= 2
    /\ requests[r].sends = 2 => requests[r].refreshCalls = 1 /\ requests[r]._retry
    /\ requests[r].pc = "refreshing" => requests[r].sends = 1

\* A request sent again after a refresh got 401 again and was rejected with
\* that second error.
C23_Witness ==
  \E r \in DOMAIN requests :
    /\ requests[r].pc = "rejected"
    /\ requests[r].sends = 2
    /\ requests[r].refreshCalls = 1
    /\ requests[r].rejected = [status |-> UNAUTHORIZED, attempt |-> 2]

\* C24: when the refresh posted after a 401 fails, both tokens are removed
\* from localStorage, the browser is sent to /login and the caller is
\* rejected with the original error; when a 401 arrives with no refresh
\* token stored, no refresh is posted, localStorage stays as it is and the
\* caller is rejected with the error.
C24_RefreshFailureAndNoToken ==
  [][\A r \in DOMAIN requests :
       /\ (requests[r].pc = "refreshing" /\ requests'[r].pc = "rejected")
            => /\ localStorage'.access_token = "none"
               /\ localStorage'.refresh_token = "none"
               /\ location' = "/login"
               /\ requests'[r].rejected = requests[r].error
               /\ requests'[r].rejected.status = UNAUTHORIZED
       /\ (/\ requests[r].pc = "sent"
           /\ requests'[r].pc # "sent"
           /\ requests'[r].error # NULL
           /\ requests'[r].error.status = UNAUTHORIZED
           /\ requests'[r].error.attempt = requests[r].sends
           /\ localStorage.refresh_token = "none")
            => /\ requests'[r].pc = "rejected"
               /\ requests'[r].rejected = requests'[r].error
               /\ requests'[r].refreshCalls = requests[r].refreshCalls
               /\ localStorage' = localStorage
               /\ location' = location]_vars

\* A request rejected with its 401 after the refresh failed, the tokens
\* gone and the browser at /login.
C24_Witness ==
  \E r \in DOMAIN requests :
    /\ requests[r].pc = "rejected"
    /\ requests[r].refreshCalls = 1
    /\ requests[r].sends = 1
    /\ requests[r].rejected = [status |-> UNAUTHORIZED, attempt |-> 1]
    /\ localStorage = [access_token |-> "none", refresh_token |-> "none"]
    /\ location = "/login"

----------------------------------------------------------------------------
(* Properties of the routes.                                               *)

\* C25: a private path shows its page only when isLoading is false and
\* isAuthenticated is true, the spinner while isLoading is true, and
\* redirects to /login when the loading is over and the tab is not
\* authenticated; /login redirects to / only when the tab is authenticated;
\* a redirect is never followed by another one, so the two wrappers cannot
\* send the tab back and forth between / and /login.
C25_RouteGuards ==
  /\ CurrentPath # "/login" =>
       /\ rendered = Children <=> ~auth.isLoading /\ auth.isAuthenticated
       /\ rendered = Spinner <=> auth.isLoading
       /\ rendered = Navigate("/login")
            <=> ~auth.isLoading /\ ~auth.isAuthenticated
  /\ CurrentPath = "/login" =>
       /\ rendered.kind = "navigate"
            => ~auth.isLoading /\ auth.isAuthenticated /\ rendered.to = "/"
       /\ auth.isLoading => rendered = Spinner
  /\ redirects <= 1
  /\ redirects = 1 => rendered.kind # "navigate"

\* An unauthenticated tab redirected from a private path to /login, where
\* the login page is shown.
C25_Witness ==
  /\ redirects = 1
  /\ CurrentPath = "/login"
  /\ rendered = Children
  /\ ~auth.isAuthenticated
  /\ Len(history) > 1
  /\ history[Len(history) - 1] # "/login"

----------------------------------------------------------------------------
(* Properties of the Transactions page.                                    *)

\* C26: whatever the order of loadData, loadMore and their responses, no
\* transaction id is twice in the page's list.
C26_NoDuplicateIds ==
  \A i, j \in DOMAIN transactions :
    i # j => transactions[i] # transactions[j]

\* C27: on transactions that do not change, with every request answered,
\* loadMore called whenever it can be brings the page to hasMore = FALSE with
\* as many transactions loaded as totalCount says; and with hasMore FALSE no
\* step makes a request.
C27_LoadMoreTerminates ==
  /\ <>(~txLoading /\ ~hasMore /\ Len(transactions) = totalCount)
  /\ [](~txLoading /\ ~hasMore => Len(transactions) = totalCount)
  /\ [][~hasMore => inFlight' \subseteq inFlight]_vars

\* More than one page was loaded and the list is complete.
C27_Witness ==
  /\ ~txLoading
  /\ ~hasMore
  /\ ~loadingMore
  /\ Len(transactions) > PAGE_SIZE
  /\ transactions = db_transactions
  /\ inFlight = {}

----------------------------------------------------------------------------
(* Properties of the Monthly Tracking page.                                *)

\* C28: whenever the list of months is not empty, selectedMonthIndex is an
\* index of it: 0 <= selectedMonthIndex <= data.length - 1.
C28_IndexInRange ==
  Len(data) > 0 =>
    0 <= selectedMonthIndex /\ selectedMonthIndex <= Len(data) - 1

----------------------------------------------------------------------------
(* Properties of the import dialog.                                        *)

============================================================================
